---- MODULE Spec2Model ----
(***************************************************************************)
(* A model of folders.py: the rootlist decoder (parse), the key comparator *)
(* (bytestring_less_or_equal), the log-segment reader (LogReader), the     *)
(* table reader (TableReader), the rootlist locator (SpotifyLevelDB), the  *)
(* byte cursor (BytesReader, LimitedFile) and the username inference       *)
(* (extract_username_from_filepath, get_usernames).                        *)
(*                                                                         *)
(* Byte strings are sequences of naturals in 0..255.  Python's None is the *)
(* string "None".  An exception that leaves a function is the pc value     *)
(* "raise" of that function.                                               *)
(***************************************************************************)
EXTENDS Naturals, Sequences, FiniteSets

VARIABLES
    \* bytestring_less_or_equal(bytestring1, bytestring2)
    cmp_a, cmp_b, cmp_result, cmp_pc,
    \* parse(data, user_id)
    rows, index, folder, stack, parse_pc,
    \* LogReader.find(target_key, filepath)
    log_src,           \* the records the segment was written from (ghost)
    log_file,          \* the bytes of the file
    log_target_key,    \* find's target_key
    log_pos,           \* file.tell()
    block_max_offset,  \* LimitedFile.max_offset of the current LogBlock
    batch_buffer,      \* LogReader.__iter__'s batch_buffer
    buffer_frags,      \* types of the fragments written to batch_buffer (ghost)
    last_value,
    emitted,           \* one record per Batch yielded so far (ghost)
    log_pc,
    \* TableReader.find(target_key, filepath)
    table,             \* the decoded content of the table file
    table_key,
    table_result,      \* what find did: raised, value, the blocks loaded
    table_pc,
    \* SpotifyLevelDB.get(username, db_dirpath)
    cache_files,       \* the files below the cache directory, in os.walk order
    username,          \* get's username argument, None for no hint
    files_to_examine,
    file_suffix,       \* seek's file_suffix: the pass being made
    file_i,            \* position of seek's for loop in files_to_examine
    seek_key,          \* seek's local key
    get_result,
    get_pc,
    \* BytesReader over a LimitedFile: n_bytes, uint, varint
    reader_file,       \* the bytes of the underlying file
    reader_max_offset, \* LimitedFile.max_offset
    reader_pos,        \* file.tell()
    reader_op,         \* the last read made
    reader_n,          \* its n_bytes argument
    reader_from,       \* file.tell() before it (ghost)
    reader_bytes,      \* the bytes it returned
    reader_value,      \* the integer it returned
    reader_raised,     \* the exception it raised
    reader_pc,
    \* extract_username_from_filepath(filepath), get_usernames(path)
    name_segments,     \* the segments of filepath, or the names os.listdir gives
    name_result,       \* extract_username_from_filepath's result
    name_usernames,    \* get_usernames' result
    name_pc

cmp_vars   == <<cmp_a, cmp_b, cmp_result, cmp_pc>>
parse_vars == <<rows, index, folder, stack, parse_pc>>
log_vars   == <<log_src, log_file, log_target_key, log_pos, block_max_offset,
                batch_buffer, buffer_frags, last_value, emitted, log_pc>>
table_vars == <<table, table_key, table_result, table_pc>>
get_vars   == <<cache_files, username, files_to_examine, file_suffix, file_i,
                seek_key, get_result, get_pc>>
reader_vars == <<reader_file, reader_max_offset, reader_pos, reader_op,
                 reader_n, reader_from, reader_bytes, reader_value,
                 reader_raised, reader_pc>>
name_vars  == <<name_segments, name_result, name_usernames, name_pc>>
vars       == <<cmp_vars, parse_vars, log_vars, table_vars, get_vars,
               reader_vars, name_vars>>

\* The variables of the other functions, which a function leaves alone.
not_cmp   == <<parse_vars, log_vars, table_vars, get_vars,
               reader_vars, name_vars>>
not_parse == <<cmp_vars, log_vars, table_vars, get_vars,
               reader_vars, name_vars>>
not_log   == <<cmp_vars, parse_vars, table_vars, get_vars,
               reader_vars, name_vars>>
not_table == <<cmp_vars, parse_vars, log_vars, get_vars,
               reader_vars, name_vars>>
not_get   == <<cmp_vars, parse_vars, log_vars, table_vars,
               reader_vars, name_vars>>
not_reader == <<cmp_vars, parse_vars, log_vars, table_vars, get_vars,
                name_vars>>
not_name  == <<cmp_vars, parse_vars, log_vars, table_vars, get_vars,
               reader_vars>>

None == "None"

\* None where a byte string may stand (no byte is 256).
NoValue == <<256>>

\* Sequences over S of length at most n.
SeqUpTo(S, n) == UNION {[1..k -> S] : k \in 0..n}

Min(m, n) == IF m <= n THEN m ELSE n
Max(m, n) == IF m >= n THEN m ELSE n

(***************************************************************************)
(* Idle values of the variables a specification does not use.              *)
(***************************************************************************)
CmpIdle ==
    /\ cmp_a = <<>> /\ cmp_b = <<>> /\ cmp_result = None /\ cmp_pc = "idle"

ParseIdle ==
    /\ rows = <<>> /\ index = 0 /\ folder = None /\ stack = <<>>
    /\ parse_pc = "idle"

LogIdle ==
    /\ log_src = <<>> /\ log_file = <<>> /\ log_target_key = <<>> /\ log_pos = 0
    /\ block_max_offset = 0 /\ batch_buffer = <<>> /\ buffer_frags = <<>>
    /\ last_value = NoValue /\ emitted = <<>> /\ log_pc = "idle"

TableIdle ==
    /\ table = None /\ table_key = <<>> /\ table_result = None
    /\ table_pc = "idle"

GetIdle ==
    /\ cache_files = <<>> /\ username = NoValue /\ files_to_examine = <<>>
    /\ file_suffix = <<>> /\ file_i = 0 /\ seek_key = NoValue
    /\ get_result = None /\ get_pc = "idle"

ReaderIdle ==
    /\ reader_file = <<>> /\ reader_max_offset = 0 /\ reader_pos = 0
    /\ reader_op = None /\ reader_n = 0 /\ reader_from = 0
    /\ reader_bytes = <<>> /\ reader_value = 0 /\ reader_raised = None
    /\ reader_pc = "idle"

NameIdle ==
    /\ name_segments = <<>> /\ name_result = NoValue
    /\ name_usernames = <<>> /\ name_pc = "idle"

(***************************************************************************)
(* Key comparator: bytestring_less_or_equal                                *)
(***************************************************************************)
group_separator == 29

\* The comparator with the length test made strict (a plausible slip).
RECURSIVE less_or_equal_strict_from(_, _, _)
less_or_equal_strict_from(bytestring1, bytestring2, i) ==
    IF i > Len(bytestring1) \/ i > Len(bytestring2)
    THEN Len(bytestring1) < Len(bytestring2)
    ELSE LET byte1 == bytestring1[i]
             byte2 == bytestring2[i]
         IN  IF byte1 = group_separator /\ byte2 # group_separator THEN FALSE
             ELSE IF byte1 # group_separator /\ byte2 = group_separator THEN TRUE
             ELSE IF byte1 < byte2 THEN TRUE
             ELSE IF byte1 > byte2 THEN FALSE
             ELSE less_or_equal_strict_from(bytestring1, bytestring2, i + 1)

\* The comparator without the group-separator cases: plain byte order.
RECURSIVE less_or_equal_plain_from(_, _, _)
less_or_equal_plain_from(bytestring1, bytestring2, i) ==
    IF i > Len(bytestring1) \/ i > Len(bytestring2)
    THEN Len(bytestring1) <= Len(bytestring2)
    ELSE LET byte1 == bytestring1[i]
             byte2 == bytestring2[i]
         IN  IF byte1 < byte2 THEN TRUE
             ELSE IF byte1 > byte2 THEN FALSE
             ELSE less_or_equal_plain_from(bytestring1, bytestring2, i + 1)

\* The loop `for byte1, byte2 in zip(bytestring1, bytestring2)` from pair i
\* on, and the length test after it.
RECURSIVE less_or_equal_from(_, _, _)
less_or_equal_from(bytestring1, bytestring2, i) ==
    IF i > Len(bytestring1) \/ i > Len(bytestring2)
    THEN Len(bytestring1) <= Len(bytestring2)
    ELSE LET byte1 == bytestring1[i]
             byte2 == bytestring2[i]
         IN  IF byte1 = group_separator /\ byte2 # group_separator THEN FALSE
             ELSE IF byte1 # group_separator /\ byte2 = group_separator THEN TRUE
             ELSE IF byte1 < byte2 THEN TRUE
             ELSE IF byte1 > byte2 THEN FALSE
             ELSE less_or_equal_from(bytestring1, bytestring2, i + 1)

bytestring_less_or_equal(bytestring1, bytestring2) ==
    less_or_equal_from(bytestring1, bytestring2, 1)

\* Inputs of the comparator: byte strings around the group separator.
MaxCmpLen == 3
CmpBytes == {0, 28, group_separator, 30}

CmpInit ==
    /\ cmp_a \in SeqUpTo(CmpBytes, MaxCmpLen)
    /\ cmp_b \in SeqUpTo(CmpBytes, MaxCmpLen)
    /\ cmp_result = None
    /\ cmp_pc = "call"
    /\ ParseIdle /\ LogIdle /\ TableIdle /\ GetIdle /\ ReaderIdle /\ NameIdle

Compare ==
    /\ cmp_pc = "call"
    /\ cmp_result' = bytestring_less_or_equal(cmp_a, cmp_b)
    /\ cmp_pc' = "return"
    /\ UNCHANGED <<cmp_a, cmp_b, not_cmp>>

CmpNext == Compare

SpecCmp == CmpInit /\ [][CmpNext]_vars

\* C7: the comparator is reflexive, antisymmetric and total: for the pair
\* (x, y) just compared, x <= x holds, x <= y and y <= x together force
\* x = y, and at least one of x <= y, y <= x holds.
C7_TotalReflexiveAntisymmetric ==
    cmp_pc = "return" =>
        /\ bytestring_less_or_equal(cmp_a, cmp_a)
        /\ bytestring_less_or_equal(cmp_b, cmp_b)
        /\ (cmp_result /\ bytestring_less_or_equal(cmp_b, cmp_a) => cmp_a = cmp_b)
        /\ (cmp_result \/ bytestring_less_or_equal(cmp_b, cmp_a))

\* A compared pair of different strings that differ at a group separator.
C7_Witness ==
    /\ cmp_pc = "return"
    /\ cmp_a = <<28, group_separator>>
    /\ cmp_b = <<28, 30, 0>>
    /\ cmp_result = FALSE

\* The rank of a byte at one position: the group separator after every
\* other byte value, the others by unsigned value.
Rank(byte) == IF byte = group_separator THEN 256 ELSE byte

\* Lexicographic <= under Rank; a proper prefix is smaller.
LexLessOrEqual(s, t) ==
    LET differ == {i \in 1..Min(Len(s), Len(t)) : s[i] # t[i]}
    IN  IF differ = {}
        THEN Len(s) <= Len(t)
        ELSE LET first == CHOOSE i \in differ : \A j \in differ : i <= j
             IN  Rank(s[first]) < Rank(t[first])

\* C8: the comparator's result equals lexicographic <= in which the group
\* separator ranks after every other byte at the same position, and a
\* prefix is <= the longer string.
C8_LexicographicWithGSLast ==
    cmp_pc = "return" => cmp_result = LexLessOrEqual(cmp_a, cmp_b)

\* A group separator in a against a larger plain byte in b: a <= b is false.
C8_Witness ==
    /\ cmp_pc = "return"
    /\ cmp_a = <<28, group_separator, 0>>
    /\ cmp_b = <<28, 30>>
    /\ cmp_result = FALSE

(***************************************************************************)
(* Rootlist decoder: parse(data, user_id)                                  *)
(*                                                                         *)
(* `rows` is the list re.split returns, each row already cut at its first  *)
(* 0x12 byte (chunks[0]).  A row is represented by the prefix the          *)
(* startswith tests read and the fields the branch uses: a playlist row by *)
(* its uri, a start-group row by its last two ':'-separated tags (group id *)
(* and name), an end-group row by its id (which the code never reads); a   *)
(* row with none of the three prefixes is "other".  A folder's uri stands  *)
(* for "spotify:user:<user_id>:folder:<id, zero-filled>", and a playlist's *)
(* for "spotify:" + row.  `index` counts rows from 1.                      *)
(***************************************************************************)
PlaylistRow(uri)        == [kind |-> "playlist:", uri |-> uri]
StartGroupRow(id, name) == [kind |-> "start-group:", id |-> id, name |-> name]
EndGroupRow(id)         == [kind |-> "end-group:", id |-> id]
OtherRow                == [kind |-> "other"]

RootFolder == [type |-> "folder", children |-> <<>>]

\* parent["children"].append(child)
AppendChild(parent, child) ==
    [parent EXCEPT !.children = Append(@, child)]

MaxRows == 4
RowMenu ==
    {PlaylistRow("p1"), PlaylistRow("p2"),
     StartGroupRow("g1", "A"), StartGroupRow("g2", "B"),
     EndGroupRow("g1"), OtherRow}

ParseInit ==
    /\ rows \in SeqUpTo(RowMenu, MaxRows)
    /\ index = 1
    /\ folder = RootFolder
    /\ stack = <<>>
    /\ parse_pc = "rows"
    /\ CmpIdle /\ LogIdle /\ TableIdle /\ GetIdle /\ ReaderIdle /\ NameIdle

AtRow(kind) ==
    /\ parse_pc = "rows"
    /\ index <= Len(rows)
    /\ rows[index].kind = kind

\* if row.startswith(b"playlist:")
Playlist ==
    /\ AtRow("playlist:")
    /\ folder' = AppendChild(folder,
                     [type |-> "playlist", uri |-> rows[index].uri])
    /\ index' = index + 1
    /\ UNCHANGED <<rows, stack, parse_pc, not_parse>>

\* elif row.startswith(b"start-group:")
StartGroup ==
    /\ AtRow("start-group:")
    /\ stack' = Append(stack, folder)
    /\ folder' = [name |-> rows[index].name, type |-> "folder",
                  uri |-> rows[index].id, children |-> <<>>]
    /\ index' = index + 1
    /\ UNCHANGED <<rows, parse_pc, not_parse>>

\* elif row.startswith(b"end-group:"): stack.pop() raises IndexError on an
\* empty list, and the exception leaves parse.
EndGroup ==
    /\ AtRow("end-group:")
    /\ IF stack = <<>>
       THEN /\ parse_pc' = "raise"
            /\ UNCHANGED <<index, folder, stack>>
       ELSE /\ folder' = AppendChild(stack[Len(stack)], folder)
            /\ stack' = SubSeq(stack, 1, Len(stack) - 1)
            /\ index' = index + 1
            /\ UNCHANGED parse_pc
    /\ UNCHANGED <<rows, not_parse>>

\* A row that matches no branch.
SkipRow ==
    /\ AtRow("other")
    /\ index' = index + 1
    /\ UNCHANGED <<rows, folder, stack, parse_pc, not_parse>>

\* The for loop is exhausted.
RowsDone ==
    /\ parse_pc = "rows"
    /\ index > Len(rows)
    /\ parse_pc' = "close"
    /\ UNCHANGED <<rows, index, folder, stack, not_parse>>

\* A close that forgets to append the open folder to its parent.
CloseGroupDropping ==
    /\ parse_pc = "close"
    /\ stack # <<>>
    /\ folder' = stack[Len(stack)]
    /\ stack' = SubSeq(stack, 1, Len(stack) - 1)
    /\ UNCHANGED <<rows, index, parse_pc, not_parse>>

\* while len(stack) > 0: one iteration.
CloseGroup ==
    /\ parse_pc = "close"
    /\ stack # <<>>
    /\ folder' = AppendChild(stack[Len(stack)], folder)
    /\ stack' = SubSeq(stack, 1, Len(stack) - 1)
    /\ UNCHANGED <<rows, index, parse_pc, not_parse>>

\* return folder
ParseReturn ==
    /\ parse_pc = "close"
    /\ stack = <<>>
    /\ parse_pc' = "return"
    /\ UNCHANGED <<rows, index, folder, stack, not_parse>>

ParseNext ==
    \/ Playlist
    \/ StartGroup
    \/ EndGroup
    \/ SkipRow
    \/ RowsDone
    \/ CloseGroup
    \/ ParseReturn

SpecParse == ParseInit /\ [][ParseNext]_vars

\* C1: an end-group row met while the stack is empty is skipped: the
\* current folder and the stack are left as they are, no error is raised
\* and decoding goes on with the next row.
C1_EndGroupOnEmptyStackSkipped ==
    [][(AtRow("end-group:") /\ stack = <<>>) =>
           /\ parse_pc' = "rows"
           /\ index' = index + 1
           /\ folder' = folder
           /\ stack' = stack]_vars

\* Number of rows of a kind among the first k rows.
CountKind(rs, kind, k) == Cardinality({i \in 1..k : rs[i].kind = kind})

\* No end-group arrives on an empty stack.
NoUnderflow(rs) ==
    \A k \in 1..Len(rs) :
        CountKind(rs, "end-group:", k) <= CountKind(rs, "start-group:", k)

\* Start-groups left open after the last row.
Unclosed(rs) ==
    CountKind(rs, "start-group:", Len(rs)) - CountKind(rs, "end-group:", Len(rs))

EndToken == [kind |-> "end-group:"]

\* The rows a tree stands for: each child in order, a folder as its
\* start-group row, its children's rows and an end-group.
RECURSIVE TreeRows(_)
TreeRows(children) ==
    IF children = <<>> THEN <<>>
    ELSE LET node == Head(children)
             own  == IF node.type = "playlist"
                     THEN <<PlaylistRow(node.uri)>>
                     ELSE <<StartGroupRow(node.uri, node.name)>>
                          \o TreeRows(node.children) \o <<EndToken>>
         IN  own \o TreeRows(Tail(children))

\* The marker rows of the input in row order, end-groups without their id,
\* followed by one end-group for each start-group left open.
MarkerRows(rs) ==
    LET IsMarker(r) == r.kind # "other"
        Strip(r)    == IF r.kind = "end-group:" THEN EndToken ELSE r
        markers     == SelectSeq(rs, IsMarker)
    IN  [i \in 1..Len(markers) |-> Strip(markers[i])]
        \o [i \in 1..Unclosed(rs) |-> EndToken]

\* C2: when no end-group arrives on an empty stack, parse returns the root
\* folder, every folder of the tree holds exactly the playlist and
\* start-group markers of its nesting level in row order, the folders left
\* open are closed innermost first, and the stack is empty on return.
C2_TreeMatchesMarkers ==
    /\ NoUnderflow(rows) => parse_pc # "raise"
    /\ parse_pc = "return" =>
           /\ stack = <<>>
           /\ DOMAIN folder = {"type", "children"}
           /\ folder.type = "folder"
           /\ TreeRows(folder.children) = MarkerRows(rows)

\* A return with two folders left open by the input, the inner one holding
\* a playlist.
C2_Witness ==
    /\ parse_pc = "return"
    /\ rows = <<StartGroupRow("g1", "A"), PlaylistRow("p1"),
                StartGroupRow("g2", "B"), PlaylistRow("p2")>>
    /\ Len(folder.children) = 1
    /\ Len(folder.children[1].children) = 2

(***************************************************************************)
(* Byte cursor: BytesReader over a file object, and LimitedFile            *)
(*                                                                         *)
(* A file object is its bytes and its position (tell(), counted from 0).   *)
(* An operator that reads returns what was read; the position after the    *)
(* read is the position before plus the length of what was read.           *)
(***************************************************************************)
\* file.read(n) at position pos: at most n bytes, fewer at end of file.
FileRead(bytes, pos, n) ==
    SubSeq(bytes, pos + 1, Min(pos + n, Len(bytes)))

\* LimitedFile.read(n_bytes): file.read(min(n_bytes, max_offset - tell())).
LimitedRead(bytes, pos, n, max_offset) ==
    FileRead(bytes, pos, Min(n, max_offset - pos))

\* int.from_bytes(bytestring, byteorder="little")
RECURSIVE FromLittleEndian(_)
FromLittleEndian(bytestring) ==
    IF bytestring = <<>> THEN 0
    ELSE Head(bytestring) + 256 * FromLittleEndian(Tail(bytestring))

RECURSIVE Pow2(_)
Pow2(n) == IF n = 0 THEN 1 ELSE 2 * Pow2(n - 1)

\* BytesReader.varint from position pos of an unlimited file: the value and
\* the position after it; n_bytes(1)[0] raises IndexError at end of file.
RECURSIVE VarintFrom(_, _, _, _)
VarintFrom(bytes, pos, value, shift) ==
    IF pos >= Len(bytes)
    THEN [raised |-> "IndexError", value |-> value, pos |-> pos]
    ELSE LET byte == bytes[pos + 1]
             v    == value + (byte % 128) * Pow2(shift)
         IN  IF byte < 128
             THEN [raised |-> None, value |-> v, pos |-> pos + 1]
             ELSE VarintFrom(bytes, pos + 1, v, shift + 7)

Varint(bytes, pos) == VarintFrom(bytes, pos, 0, 0)

(***************************************************************************)
(* Log segments: Fragment, LogBlock, LogBlockSequence, Batch, LogReader    *)
(***************************************************************************)
FULL_RECORD   == 1
FIRST_RECORD  == 2
MIDDLE_RECORD == 3
LAST_RECORD   == 4

MAX_BLOCK_SIZE == 32768

\* BytesReader.bytes_left of the reader limit() returns for a block:
\* max(0, min(max_offset, size) - pos).
BlockBytesLeft(bytes, pos, max_offset) ==
    LET new_size == Min(max_offset, Len(bytes))
    IN  IF new_size > pos THEN new_size - pos ELSE 0

\* Fragment(reader): read_header, then data = reader.n_bytes(length); `pos`
\* of the result is the position after the fragment.
Fragment(bytes, pos, max_offset) ==
    LET checksum == LimitedRead(bytes, pos, 4, max_offset)
        p1       == pos + Len(checksum)
        length   == LimitedRead(bytes, p1, 2, max_offset)
        p2       == p1 + Len(length)
        type     == LimitedRead(bytes, p2, 1, max_offset)
        p3       == p2 + Len(type)
        data     == LimitedRead(bytes, p3, FromLittleEndian(length), max_offset)
    IN  [checksum |-> FromLittleEndian(checksum),
         length   |-> FromLittleEndian(length),
         type     |-> FromLittleEndian(type),
         data     |-> data,
         pos      |-> p3 + Len(data)]

\* Batch.__iter__ from operation i on: the operations yielded so far, how
\* the generator ended (None: normally) and the bytes left at that point.
RECURSIVE BatchIterFrom(_, _, _, _, _)
BatchIterFrom(buffer, pos, i, count, yielded) ==
    IF i > count
    THEN \* assert reader.bytes_left() == 0
         [ops    |-> yielded,
          raised |-> IF Len(buffer) - pos = 0 THEN None ELSE "AssertionError",
          left   |-> Len(buffer) - pos]
    ELSE LET value_type == FromLittleEndian(FileRead(buffer, pos, 1))
             p1         == pos + Len(FileRead(buffer, pos, 1))
             ksize      == Varint(buffer, p1)
             key        == FileRead(buffer, ksize.pos, ksize.value)
             p2         == ksize.pos + Len(key)
             vsize      == Varint(buffer, p2)
             value      == FileRead(buffer, vsize.pos, vsize.value)
             p3         == vsize.pos + Len(value)
             Stop(p)    == [ops |-> yielded, raised |-> "IndexError",
                            left |-> Len(buffer) - p]
         IN  IF ksize.raised # None THEN Stop(p1)
             ELSE IF value_type = 1
             THEN IF vsize.raised # None THEN Stop(p2)
                  ELSE BatchIterFrom(buffer, p3, i + 1, count,
                           Append(yielded, <<"put", key, value>>))
             ELSE BatchIterFrom(buffer, p2, i + 1, count,
                      Append(yielded, <<"delete", key>>))

\* Batch(buffer) and one full iteration of it: __init__ reads
\* sequence_number and count; __iter__ returns at once when no byte is left.
Batch(buffer) ==
    LET seq_bytes   == FileRead(buffer, 0, 8)
        count_bytes == FileRead(buffer, Len(seq_bytes), 4)
        pos         == Len(seq_bytes) + Len(count_bytes)
        count       == FromLittleEndian(count_bytes)
        iter        == IF Len(buffer) - pos = 0
                       THEN [ops |-> <<>>, raised |-> None, left |-> 0]
                       ELSE BatchIterFrom(buffer, pos, 1, count, <<>>)
    IN  [sequence_number |-> FromLittleEndian(seq_bytes),
         count           |-> count,
         ops             |-> iter.ops,
         raised          |-> iter.raised,
         left            |-> iter.left]

\* find's loop body over the operations of one batch that keeps the first
\* matching value instead of the last.
RECURSIVE FindInOpsFirstWins(_, _, _)
FindInOpsFirstWins(ops, key, last) ==
    IF ops = <<>> THEN last
    ELSE LET op == Head(ops)
         IN  FindInOpsFirstWins(Tail(ops), key,
                 IF op[1] = "put" /\ op[2] = key /\ last = NoValue
                 THEN op[3] ELSE last)

\* LogReader.find's loop body over the operations of one batch.
RECURSIVE FindInOps(_, _, _)
FindInOps(ops, key, last) ==
    IF ops = <<>> THEN last
    ELSE LET op == Head(ops)
         IN  FindInOps(Tail(ops), key,
                 IF op[1] = "put" /\ op[2] = key THEN op[3] ELSE last)

(***************************************************************************)
(* The on-disk form of a log segment, as the reader above expects it: the  *)
(* inputs of LogReader.find are written with these.                        *)
(***************************************************************************)
RECURSIVE ToLittleEndian(_, _)
ToLittleEndian(n, width) ==
    IF width = 0 THEN <<>>
    ELSE <<n % 256>> \o ToLittleEndian(n \div 256, width - 1)

RECURSIVE EncodeVarint(_)
EncodeVarint(n) ==
    IF n < 128 THEN <<n>> ELSE <<128 + (n % 128)>> \o EncodeVarint(n \div 128)

EncodeOp(op) ==
    IF op[1] = "put"
    THEN <<1>> \o EncodeVarint(Len(op[2])) \o op[2]
              \o EncodeVarint(Len(op[3])) \o op[3]
    ELSE <<0>> \o EncodeVarint(Len(op[2])) \o op[2]

RECURSIVE EncodeOps(_)
EncodeOps(ops) ==
    IF ops = <<>> THEN <<>> ELSE EncodeOp(Head(ops)) \o EncodeOps(Tail(ops))

\* sequence:u64, count:u32, the operations, then `extra` bytes.
EncodeBatch(sequence_number, count, ops, extra) ==
    ToLittleEndian(sequence_number, 8) \o ToLittleEndian(count, 4)
        \o EncodeOps(ops) \o extra

\* checksum:u32 (not verified by the reader), length:u16, type:u8, payload.
EncodeFragment(type, data) ==
    <<0, 0, 0, 0>> \o ToLittleEndian(Len(data), 2) \o <<type>> \o data

\* A record of the segment: a batch written as one FULL fragment or as
\* FIRST, MIDDLE, LAST; or a stray fragment of an abandoned record.
BatchItem(ops, count, extra, shape) ==
    [kind |-> "batch", ops |-> ops, count |-> count, extra |-> extra,
     shape |-> shape]
StrayItem(type, data) ==
    [kind |-> "stray", type |-> type, data |-> data]

EncodeItem(item) ==
    IF item.kind = "stray" THEN EncodeFragment(item.type, item.data)
    ELSE LET payload == EncodeBatch(5, item.count, item.ops, item.extra)
         IN  IF item.shape = "full"
             THEN EncodeFragment(FULL_RECORD, payload)
             ELSE EncodeFragment(FIRST_RECORD, SubSeq(payload, 1, 5))
                  \o EncodeFragment(MIDDLE_RECORD, SubSeq(payload, 6, 12))
                  \o EncodeFragment(LAST_RECORD,
                                    SubSeq(payload, 13, Len(payload)))

RECURSIVE EncodeSegment(_)
EncodeSegment(items) ==
    IF items = <<>> THEN <<>>
    ELSE EncodeItem(Head(items)) \o EncodeSegment(Tail(items))

K1 == <<107>>
K2 == <<108>>
V1 == <<65>>
V2 == <<66>>

OpLists ==
    {<<>>,
     << <<"put", K1, V1>> >>,
     << <<"put", K1, V2>> >>,
     << <<"put", K2, V1>> >>,
     << <<"delete", K1>> >>,
     << <<"put", K1, V1>>, <<"put", K1, V2>> >>,
     << <<"put", K1, V2>>, <<"put", K2, V1>> >>,
     << <<"put", K1, V1>>, <<"delete", K1>> >>}

\* Batches as the writer leaves them: count operations and nothing more.
WrittenItems ==
    {BatchItem(ops, Len(ops), <<>>, shape) :
        ops \in OpLists, shape \in {"full", "split"}}

\* Batches with bytes after the declared operations.
TrailingItems ==
    {BatchItem(<< <<"put", K1, V1>> >>, 1, <<0>>, "full"),
     BatchItem(<<>>, 0, <<7>>, "full"),
     BatchItem(<< <<"put", K2, V1>> >>, 1, <<0, 0>>, "split")}

\* A batch that declares more operations than it holds.
ShortItems == {BatchItem(<<>>, 1, <<>>, "full")}

\* Fragments out of sequence: a FIRST never finished, a MIDDLE or LAST with
\* no FIRST before it.
StrayItems ==
    {StrayItem(FIRST_RECORD, <<9>>), StrayItem(MIDDLE_RECORD, <<9>>),
     StrayItem(LAST_RECORD, <<9>>)}

ItemMenu == WrittenItems \cup TrailingItems \cup ShortItems \cup StrayItems

MaxItems == 2

LogInit ==
    /\ log_src \in SeqUpTo(ItemMenu, MaxItems)
    /\ log_file = EncodeSegment(log_src)
    /\ log_target_key = K1
    /\ log_pos = 0
    /\ block_max_offset = 0
    /\ batch_buffer = <<>>
    /\ buffer_frags = <<>>
    /\ last_value = NoValue
    /\ emitted = <<>>
    /\ log_pc = "blocks"
    /\ CmpIdle /\ ParseIdle /\ TableIdle /\ GetIdle /\ ReaderIdle /\ NameIdle

\* LogBlockSequence.__iter__: bytes are left, so a LogBlock is made;
\* reader.limit sets max_offset = file.tell() + MAX_BLOCK_SIZE.
NextBlock ==
    /\ log_pc = "blocks"
    /\ Len(log_file) - log_pos > 0
    /\ block_max_offset' = log_pos + MAX_BLOCK_SIZE
    /\ log_pc' = "fragments"
    /\ UNCHANGED <<log_src, log_file, log_target_key, log_pos, batch_buffer,
                   buffer_frags, last_value, emitted, not_log>>

\* LogBlock.__iter__ finds no byte left in the block.
BlockDone ==
    /\ log_pc = "fragments"
    /\ BlockBytesLeft(log_file, log_pos, block_max_offset) = 0
    /\ log_pc' = "blocks"
    /\ UNCHANGED <<log_src, log_file, log_target_key, log_pos, block_max_offset,
                   batch_buffer, buffer_frags, last_value, emitted, not_log>>

\* LogReader.__iter__, one fragment: batch_buffer.write(fragment.data), and
\* on FULL or LAST the buffer is yielded as a Batch.
ReadFragment ==
    /\ log_pc = "fragments"
    /\ BlockBytesLeft(log_file, log_pos, block_max_offset) > 0
    /\ LET fragment == Fragment(log_file, log_pos, block_max_offset)
       IN  /\ batch_buffer' = batch_buffer \o fragment.data
           /\ buffer_frags' = Append(buffer_frags, fragment.type)
           /\ log_pos' = fragment.pos
           /\ log_pc' = IF fragment.type \in {FULL_RECORD, LAST_RECORD}
                        THEN "batch" ELSE "fragments"
    /\ UNCHANGED <<log_src, log_file, log_target_key, block_max_offset,
                   last_value, emitted, not_log>>

\* LogReader.find's body for one yielded Batch: the batch is decoded and
\* its operations are folded into last_value; an exception of the decoding
\* leaves find; otherwise the generator resumes and clears the buffer.
FindInBatch ==
    /\ log_pc = "batch"
    /\ LET batch == Batch(batch_buffer)
       IN  /\ emitted' = Append(emitted,
                  [frags   |-> buffer_frags,
                   buffer  |-> batch_buffer,
                   count   |-> batch.count,
                   yielded |-> Len(batch.ops),
                   raised  |-> batch.raised,
                   left    |-> batch.left])
           /\ IF batch.raised # None
              THEN /\ log_pc' = "raise"
                   /\ UNCHANGED <<batch_buffer, buffer_frags, last_value>>
              ELSE /\ last_value' = FindInOps(batch.ops, log_target_key, last_value)
                   /\ batch_buffer' = <<>>
                   /\ buffer_frags' = <<>>
                   /\ log_pc' = "fragments"
    /\ UNCHANGED <<log_src, log_file, log_target_key, log_pos, block_max_offset,
                   not_log>>

\* LogBlockSequence.__iter__ finds no byte left: find returns last_value.
LogReturn ==
    /\ log_pc = "blocks"
    /\ Len(log_file) - log_pos <= 0
    /\ log_pc' = "return"
    /\ UNCHANGED <<log_src, log_file, log_target_key, log_pos, block_max_offset,
                   batch_buffer, buffer_frags, last_value, emitted, not_log>>

LogNext ==
    \/ NextBlock
    \/ BlockDone
    \/ ReadFragment
    \/ FindInBatch
    \/ LogReturn

SpecLog == LogInit /\ [][LogNext]_vars

\* LogReader.find as one call on the bytes of a file: the loops of
\* LogBlockSequence (LogFindFrom) and of LogBlock (LogFindBlock), as the
\* actions above take them step by step.
RECURSIVE LogFindFrom(_, _, _, _, _)
RECURSIVE LogFindBlock(_, _, _, _, _, _)
LogFindFrom(bytes, target, pos, buffer, last) ==
    IF Len(bytes) - pos <= 0
    THEN [raised |-> None, value |-> last]
    ELSE LogFindBlock(bytes, target, pos, pos + MAX_BLOCK_SIZE, buffer, last)

LogFindBlock(bytes, target, pos, max_offset, buffer, last) ==
    IF BlockBytesLeft(bytes, pos, max_offset) = 0
    THEN LogFindFrom(bytes, target, pos, buffer, last)
    ELSE LET fragment == Fragment(bytes, pos, max_offset)
             written  == buffer \o fragment.data
             batch    == Batch(written)
         IN  IF fragment.type \in {FULL_RECORD, LAST_RECORD}
             THEN IF batch.raised # None
                  THEN [raised |-> batch.raised, value |-> NoValue]
                  ELSE LogFindBlock(bytes, target, fragment.pos, max_offset,
                           <<>>, FindInOps(batch.ops, target, last))
             ELSE LogFindBlock(bytes, target, fragment.pos, max_offset,
                      written, last)

LogFind(target, bytes) == LogFindFrom(bytes, target, 0, <<>>, NoValue)

\* The step-by-step run and the single call end alike.
LogFindAgrees ==
    /\ log_pc = "return" =>
           LogFind(log_target_key, log_file) = [raised |-> None, value |-> last_value]
    /\ log_pc = "raise" => LogFind(log_target_key, log_file).raised # None

\* The operations of the records of a segment, in file order.
RECURSIVE AllOps(_)
AllOps(items) ==
    IF items = <<>> THEN <<>>
    ELSE (IF Head(items).kind = "batch" THEN Head(items).ops ELSE <<>>)
         \o AllOps(Tail(items))

\* The value of the last PUT of `key` among ops, None when there is none.
LastPut(ops, key) ==
    LET puts == {i \in 1..Len(ops) : ops[i][1] = "put" /\ ops[i][2] = key}
    IN  IF puts = {} THEN NoValue
        ELSE ops[CHOOSE i \in puts : \A j \in puts : j <= i][3]

\* A segment as the data model describes it: every record is a batch that
\* holds exactly its declared count of operations, framed FULL or
\* FIRST MIDDLE* LAST.
IsLogSegment(items) ==
    \A i \in 1..Len(items) : items[i] \in WrittenItems

\* C5: over a log segment, find returns the value of the last PUT of
\* log_target_key in file order across all batches, and None when no PUT has
\* that key; earlier PUTs of the key, DELETEs and other keys do not decide.
C5_FindReturnsLastPut ==
    IsLogSegment(log_src) =>
        /\ log_pc # "raise"
        /\ log_pc = "return" => last_value = LastPut(AllOps(log_src), log_target_key)

\* find has returned the second of two PUTs of the key made in different
\* batches, the later batch ending with an operation on another key.
C5_Witness ==
    /\ log_pc = "return"
    /\ log_src = <<BatchItem(<< <<"put", K1, V1>>, <<"delete", K1>> >>, 2, <<>>, "split"),
                   BatchItem(<< <<"put", K1, V2>>, <<"put", K2, V1>> >>, 2, <<>>, "full")>>
    /\ last_value = V2

\* The fragment types of one logical record: FULL alone, or FIRST, any
\* number of MIDDLEs and LAST.
OneRecord(frags) ==
    \/ frags = <<FULL_RECORD>>
    \/ /\ Len(frags) >= 2
       /\ frags[1] = FIRST_RECORD
       /\ frags[Len(frags)] = LAST_RECORD
       /\ \A i \in 2..(Len(frags) - 1) : frags[i] = MIDDLE_RECORD

\* C9: every batch the log reader emits is assembled from the fragments of
\* one record only (one FULL, or FIRST MIDDLE* LAST): after a type-sequence
\* violation the partial buffer is discarded, so no emitted batch holds
\* bytes of a fragment of an abandoned record.
C9_BatchHoldsOneRecord ==
    \A i \in 1..Len(emitted) : OneRecord(emitted[i].frags)

\* Segments whose batches hold their declared count of operations, some
\* followed by further bytes in the batch buffer.
CountedItems == WrittenItems \cup TrailingItems

\* C10: iterating a batch yields exactly the declared count of operations,
\* and bytes left in the batch buffer after them are discarded without
\* failing the iteration, so find still receives the operations of that
\* batch and of the later ones.
C10_CountOpsThenTrailingDiscarded ==
    /\ \A i \in 1..Len(emitted) :
           emitted[i].raised = None => emitted[i].yielded = emitted[i].count
    /\ (\A i \in 1..Len(log_src) : log_src[i] \in CountedItems) =>
           /\ log_pc # "raise"
           /\ log_pc = "return" =>
                  /\ Len(emitted) = Len(log_src)
                  /\ last_value = LastPut(AllOps(log_src), log_target_key)

(***************************************************************************)
(* Table files: TableFooter, TableIndex, TableData, TableReader.find       *)
(*                                                                         *)
(* A table file is modelled by what its blocks decode to: the footer's     *)
(* magic bytes, the index block (its compression tag and its entries, each *)
(* the user key of an internal key and a block handle) and the data blocks *)
(* (compression tag and entries: user key, sequence number, value type and *)
(* value).  A block handle is the number of the data block it points to.   *)
(* The key/value stream of a block (KeyValueReader) is taken as decoded.   *)
(***************************************************************************)
\* 0xDB4775248B80FB57 as the 8 little-endian bytes the footer ends with.
MAGIC_NUMBER == <<87, 251, 128, 139, 36, 117, 71, 219>>

\* BytesReader.n_bytes(n, compression) as TableBlock.read_data calls it:
\* how the read ends for a compression tag (None: the data is returned).
ReadDataRaises(compression) ==
    IF compression = 0 THEN None
    ELSE IF compression = 1 THEN None
    ELSE "NotImplementedError"

\* The inner loop of find over a data block from entry j on: the value of
\* the first entry whose user key is target_key, None when there is none.
RECURSIVE FindInData(_, _, _)
FindInData(entries, target_key, j) ==
    IF j > Len(entries) THEN NoValue
    ELSE IF entries[j].user_key = target_key THEN entries[j].value
    ELSE FindInData(entries, target_key, j + 1)

\* An index walk that goes on to the next block when the first candidate
\* block holds no match.
RECURSIVE FindFromIndexNoBreak(_, _, _, _)
FindFromIndexNoBreak(t, target_key, i, loaded) ==
    IF i > Len(t.index.entries)
    THEN [raised |-> None, value |-> NoValue, loaded |-> loaded]
    ELSE LET entry == t.index.entries[i]
         IN  IF ~bytestring_less_or_equal(target_key, entry.user_key)
             THEN FindFromIndexNoBreak(t, target_key, i + 1, loaded)
             ELSE LET block == t.blocks[entry.handle]
                      now   == Append(loaded, entry.handle)
                      value == FindInData(block.entries, target_key, 1)
                  IN  IF ReadDataRaises(block.compression) # None
                      THEN [raised |-> ReadDataRaises(block.compression),
                            value |-> NoValue, loaded |-> loaded]
                      ELSE IF value # NoValue
                      THEN [raised |-> None, value |-> value, loaded |-> now]
                      ELSE FindFromIndexNoBreak(t, target_key, i + 1, now)

\* The outer loop of find from index entry i on: entries whose user key is
\* below target_key are passed over; the first other entry's data block is
\* loaded and searched, and the loop is left whatever the search gives.
RECURSIVE FindFromIndex(_, _, _, _)
FindFromIndex(t, target_key, i, loaded) ==
    IF i > Len(t.index.entries)
    THEN [raised |-> None, value |-> NoValue, loaded |-> loaded]
    ELSE LET entry == t.index.entries[i]
         IN  IF ~bytestring_less_or_equal(target_key, entry.user_key)
             THEN FindFromIndex(t, target_key, i + 1, loaded)
             ELSE LET block == t.blocks[entry.handle]
                  IN  IF ReadDataRaises(block.compression) # None
                      THEN [raised |-> ReadDataRaises(block.compression),
                            value |-> NoValue, loaded |-> loaded]
                      ELSE [raised |-> None,
                            value  |-> FindInData(block.entries, target_key, 1),
                            loaded |-> Append(loaded, entry.handle)]

\* TableReader.find: the footer's magic number is asserted, the index block
\* is read, then the index is walked.
TableFind(target_key, t) ==
    IF t.magic # MAGIC_NUMBER
    THEN [raised |-> "AssertionError", value |-> NoValue, loaded |-> <<>>]
    ELSE IF ReadDataRaises(t.index.compression) # None
    THEN [raised |-> ReadDataRaises(t.index.compression), value |-> NoValue,
          loaded |-> <<>>]
    ELSE FindFromIndex(t, target_key, 1, <<>>)

\* User keys around the group separator: under the comparator
\* <<28>> < <<30>> < <<29>>.
UserKeys == {<<28>>, <<group_separator>>, <<30>>}

\* The user keys of the entries of one data block.
BlockKeyLists ==
    {<<k>> : k \in UserKeys} \cup {<<k, l>> : k, l \in UserKeys}

MaxBlocks == 2

\* The table with data blocks of the given user keys and index keys: index
\* entry b points to block b, the value of an entry tells its place, and
\* sequence numbers fall from the first entry to the last.
MakeTable(key_lists, index_keys, magic, tag) ==
    [magic  |-> magic,
     index  |-> [compression |-> 0,
                 entries |-> [b \in 1..Len(key_lists) |->
                                 [user_key |-> index_keys[b], handle |-> b]]],
     blocks |-> [b \in 1..Len(key_lists) |->
                   [compression |-> tag,
                    entries |-> [e \in 1..Len(key_lists[b]) |->
                                   [user_key        |-> key_lists[b][e],
                                    sequence_number |-> 100 - (10 * b + e),
                                    value_type      |-> 1,
                                    value           |-> <<b, e>>]]]]]

Tables ==
    UNION {{MakeTable(kl, ik, MAGIC_NUMBER, 0) :
               kl \in [1..n -> BlockKeyLists], ik \in [1..n -> UserKeys]} :
           n \in 0..MaxBlocks}

TableInit ==
    /\ table \in Tables
    /\ table_key \in UserKeys
    /\ table_result = None
    /\ table_pc = "call"
    /\ CmpIdle /\ ParseIdle /\ LogIdle /\ GetIdle /\ ReaderIdle /\ NameIdle

TableFindCall ==
    /\ table_pc = "call"
    /\ table_result' = TableFind(table_key, table)
    /\ table_pc' = IF table_result'.raised = None THEN "return" ELSE "raise"
    /\ UNCHANGED <<table, table_key, not_table>>

TableNext == TableFindCall

SpecTable == TableInit /\ [][TableNext]_vars

\* Strictly less under the comparator.
KeyLess(x, y) == bytestring_less_or_equal(x, y) /\ x # y

\* All entries of the data blocks, block after block.
RECURSIVE EntriesFrom(_, _)
EntriesFrom(t, b) ==
    IF b > Len(t.blocks) THEN <<>>
    ELSE t.blocks[b].entries \o EntriesFrom(t, b + 1)

\* A full scan: the value of the first entry of the table whose user key
\* is key, None when no entry has it.
FullScan(t, key) == FindInData(EntriesFrom(t, 1), key, 1)

\* Entries sorted by user key ascending, equal user keys by sequence
\* number descending.
SortedEntries(t) ==
    LET es == EntriesFrom(t, 1)
    IN  \A i \in 1..Len(es) : \A j \in (i + 1)..Len(es) :
            /\ bytestring_less_or_equal(es[i].user_key, es[j].user_key)
            /\ es[i].user_key = es[j].user_key =>
                   es[i].sequence_number > es[j].sequence_number

\* Each index key is >= every user key of the block it references.
IndexCoversBlocks(t) ==
    \A b \in 1..Len(t.blocks) : \A e \in 1..Len(t.blocks[b].entries) :
        bytestring_less_or_equal(t.blocks[b].entries[e].user_key,
                                 t.index.entries[b].user_key)

\* Each index key is below every user key of the later blocks, but for a
\* user key that its own block holds too.
IndexSeparatesBlocks(t) ==
    \A b \in 1..Len(t.blocks) : \A c \in (b + 1)..Len(t.blocks) :
        \A e \in 1..Len(t.blocks[c].entries) :
            LET key == t.blocks[c].entries[e].user_key
            IN  \/ KeyLess(t.index.entries[b].user_key, key)
                \/ \E d \in 1..Len(t.blocks[b].entries) :
                       t.blocks[b].entries[d].user_key = key

\* The first index entry whose user key is >= key, 0 when there is none.
FirstCandidate(t, key) ==
    LET cands == {b \in 1..Len(t.index.entries) :
                     bytestring_less_or_equal(key, t.index.entries[b].user_key)}
    IN  IF cands = {} THEN 0 ELSE CHOOSE b \in cands : \A c \in cands : b <= c

\* find has returned what the full scan gives and has loaded at most one
\* data block, the first candidate's.
FindIsFullScan ==
    /\ table_result.raised = None
    /\ table_result.value = FullScan(table, table_key)
    /\ table_result.loaded =
           IF FirstCandidate(table, table_key) = 0 THEN <<>>
           ELSE <<table.index.entries[FirstCandidate(table, table_key)].handle>>

\* C6 as stated: for every table whose entries are sorted and whose index
\* keys are >= all user keys of their block, find returns what a full scan
\* for the first entry with the target key returns, loading at most one
\* data block, the first whose index key is >= the target.
C6_AsStated ==
    (table_pc # "call" /\ SortedEntries(table) /\ IndexCoversBlocks(table))
        => FindIsFullScan

\* C6, amended: the same for every table whose index keys are, besides,
\* below every user key of the later blocks that their own block does not
\* hold.
C6_FindIsFullScan ==
    (/\ table_pc # "call"
     /\ SortedEntries(table)
     /\ IndexCoversBlocks(table)
     /\ IndexSeparatesBlocks(table))
        => FindIsFullScan

\* find has passed over the first block, whose index key <<30>> is below
\* the target <<0x1D>> under the comparator, and returned the entry of the
\* second block.
C6_Witness ==
    /\ table_pc = "return"
    /\ table = MakeTable(<< <<<<28>>, <<30>>>>, <<<<group_separator>>>> >>,
                         << <<30>>, <<group_separator>> >>, MAGIC_NUMBER, 0)
    /\ table_key = <<group_separator>>
    /\ SortedEntries(table) /\ IndexCoversBlocks(table)
    /\ IndexSeparatesBlocks(table)
    /\ table_result.value = <<2, 1>>
    /\ table_result.loaded = <<2>>

(***************************************************************************)
(* Rootlist locator: SpotifyLevelDB.get and its helpers                    *)
(*                                                                         *)
(* A file path is the sequence of its segments below the cache directory,  *)
(* each a byte string, the file name last.  A file is its path, its        *)
(* last-modified time, whether open() succeeds on it, its content (the     *)
(* bytes LogReader reads from a .log file) and its table (the blocks       *)
(* TableReader reads from a .ldb file).                                    *)
(***************************************************************************)
\* b"!pl#slc#\x1dspotify:user:{}:rootlist#", before and after the "{}".
LEVELDB_ROOTLIST_KEY_HEAD ==
    <<33, 112, 108, 35, 115, 108, 99, 35, group_separator,
      115, 112, 111, 116, 105, 102, 121, 58, 117, 115, 101, 114, 58>>
LEVELDB_ROOTLIST_KEY_TAIL ==
    <<58, 114, 111, 111, 116, 108, 105, 115, 116, 35>>

DASH_USER  == <<45, 117, 115, 101, 114>>   \* "-user"
LOG_SUFFIX == <<46, 108, 111, 103>>        \* ".log"
LDB_SUFFIX == <<46, 108, 100, 98>>         \* ".ldb"

\* Python truth of an optional byte string: neither None nor empty.
Truthy(v) == v # NoValue /\ v # <<>>

\* bytestring.endswith(suffix)
EndsWith(bytestring, suffix) ==
    /\ Len(bytestring) >= Len(suffix)
    /\ SubSeq(bytestring, Len(bytestring) - Len(suffix) + 1, Len(bytestring))
           = suffix

\* tail.rsplit("-")[0]: with no maxsplit every "-" splits, and item 0 is
\* what stands before the first one.
RECURSIVE RsplitDashFirst(_)
RsplitDashFirst(tail) ==
    IF tail = <<>> \/ Head(tail) = 45 THEN <<>>
    ELSE <<Head(tail)>> \o RsplitDashFirst(Tail(tail))

\* extract_username_from_filepath, from segment i down to the root.
RECURSIVE ExtractUsernameFrom(_, _)
ExtractUsernameFrom(filepath, i) ==
    IF i = 0 THEN NoValue
    ELSE IF EndsWith(filepath[i], DASH_USER) THEN RsplitDashFirst(filepath[i])
    ELSE ExtractUsernameFrom(filepath, i - 1)

extract_username_from_filepath(filepath) ==
    ExtractUsernameFrom(filepath, Len(filepath))

make_key_from_username(name) ==
    LEVELDB_ROOTLIST_KEY_HEAD \o name \o LEVELDB_ROOTLIST_KEY_TAIL

make_key_from_filepath(filepath) ==
    IF Truthy(extract_username_from_filepath(filepath))
    THEN make_key_from_username(extract_username_from_filepath(filepath))
    ELSE NoValue

\* reader_cls.find(key, filepath): open() fails on an unreadable file;
\* otherwise LogReader.find or TableReader.find on the content.
ReaderFind(suffix, target, file) ==
    IF ~file.readable THEN [raised |-> "OSError", value |-> NoValue]
    ELSE IF suffix = LOG_SUFFIX
    THEN LogFind(target, file.content)
    ELSE LET found == TableFind(target, file.table)
         IN  [raised |-> found.raised, value |-> found.value]

\* result.sort(key=modified, reverse=True): a stable sort, so files of
\* equal time keep their order; one insertion.
RECURSIVE InsertModifiedLastFirst(_, _)
InsertModifiedLastFirst(sorted, file) ==
    IF sorted = <<>> THEN <<file>>
    ELSE IF Head(sorted).mtime >= file.mtime
    THEN <<Head(sorted)>> \o InsertModifiedLastFirst(Tail(sorted), file)
    ELSE <<file>> \o sorted

RECURSIVE SortModifiedLastFirst(_)
SortModifiedLastFirst(files) ==
    IF files = <<>> THEN <<>>
    ELSE InsertModifiedLastFirst(
             SortModifiedLastFirst(SubSeq(files, 1, Len(files) - 1)),
             files[Len(files)])

\* os.walk(db_dirpath): get_leveldb_rootlist makes db_dirpath the cache
\* directory, or its directory <username>-user when a username is given.
Walk(files, hint) ==
    LET Below(file) == Len(file.path) >= 2 /\ file.path[1] = hint \o DASH_USER
    IN  IF Truthy(hint) THEN SelectSeq(files, Below) ELSE files

get_files_in_dir_modified_last_first(files, hint) ==
    SortModifiedLastFirst(Walk(files, hint))

\* The key get hands to each call of seek.
OuterKey == IF Truthy(username) THEN make_key_from_username(username) ELSE NoValue

\* The file at the head of seek's loop, and the key seek uses for it.
CurrentFile == files_to_examine[file_i]
CurrentKey ==
    IF Truthy(seek_key) THEN seek_key
    ELSE make_key_from_filepath(CurrentFile.path)

AtFile ==
    /\ get_pc = "seek"
    /\ file_i <= Len(files_to_examine)

AtCandidate ==
    /\ AtFile
    /\ EndsWith(CurrentFile.path[Len(CurrentFile.path)], file_suffix)

USER_A == <<97>>
USER_B == <<98>>
V3 == <<67>>

\* A .log file of one batch with one PUT.
LogWithPut(k, v) ==
    EncodeSegment(<<BatchItem(<< <<"put", k, v>> >>, 1, <<>>, "full")>>)

\* A .ldb file of one data block with one entry, whose value is <<1, 1>>.
TableWithKey(k, magic, tag) == MakeTable(<< <<k>> >>, <<k>>, magic, tag)

\* What stands for the table of a file that is not read as one.
NoTable == MakeTable(<<>>, <<>>, <<>>, 0)

LogFile(dir, readable, content) ==
    [dir |-> dir, suffix |-> LOG_SUFFIX, readable |-> readable,
     content |-> content, table |-> NoTable]

LdbFile(dir, t) ==
    [dir |-> dir, suffix |-> LDB_SUFFIX, readable |-> TRUE,
     content |-> <<>>, table |-> t]

\* Directory, suffix, readability and content of the files of a cache.
FileMenu ==
    {LogFile(USER_A \o DASH_USER, TRUE,
             LogWithPut(make_key_from_username(USER_A), V1)),
     LogFile(USER_A \o DASH_USER, TRUE,
             LogWithPut(make_key_from_username(USER_A), V2)),
     LogFile(USER_A \o DASH_USER, TRUE,
             LogWithPut(make_key_from_username(USER_A), <<>>)),
     LogFile(USER_A \o DASH_USER, TRUE, LogWithPut(K2, V1)),
     LogFile(USER_A \o DASH_USER, TRUE,
             EncodeSegment(<<BatchItem(
                 << <<"put", make_key_from_username(USER_A), V1>> >>,
                 1, <<0>>, "full")>>)),
     LogFile(USER_A \o DASH_USER, FALSE, <<>>),
     LogFile(USER_B \o DASH_USER, TRUE,
             LogWithPut(make_key_from_username(USER_B), V3)),
     LogFile(<<>>, TRUE, LogWithPut(make_key_from_username(USER_A), V3)),
     LdbFile(USER_A \o DASH_USER,
             TableWithKey(make_key_from_username(USER_A), MAGIC_NUMBER, 0)),
     LdbFile(USER_A \o DASH_USER,
             TableWithKey(make_key_from_username(USER_A),
                          <<0, 0, 0, 0, 0, 0, 0, 0>>, 0)),
     LdbFile(USER_A \o DASH_USER,
             TableWithKey(make_key_from_username(USER_A), MAGIC_NUMBER, 2)),
     [dir |-> USER_A \o DASH_USER, suffix |-> <<>>, readable |-> TRUE,
      content |-> <<>>, table |-> NoTable]}

Mtimes == {1, 2}

\* The i-th file of the walk: its name is its number and its suffix.
MakeFile(i, item, mtime) ==
    [path     |-> (IF item.dir = <<>> THEN <<>> ELSE <<item.dir>>)
                  \o << <<48 + i>> \o item.suffix >>,
     mtime    |-> mtime,
     readable |-> item.readable,
     content  |-> item.content,
     table    |-> item.table]

MaxFiles == 2

\* os.walk is top-down: the files of the cache directory itself come
\* first, and the files of one directory come together.
WalkOrder(items) ==
    /\ \A i, j \in DOMAIN items :
          i < j /\ items[j].dir = <<>> => items[i].dir = <<>>
    /\ \A i, j, k \in DOMAIN items :
          i < j /\ j < k /\ items[i].dir = items[k].dir
              => items[j].dir = items[i].dir

GetInit ==
    /\ \E n \in 0..MaxFiles :
         \E items \in [1..n -> FileMenu], mtimes \in [1..n -> Mtimes] :
            /\ WalkOrder(items)
            /\ cache_files = [i \in 1..n |-> MakeFile(i, items[i], mtimes[i])]
    /\ username \in {NoValue, USER_A}
    /\ files_to_examine = <<>>
    /\ file_suffix = <<>>
    /\ file_i = 0
    /\ seek_key = NoValue
    /\ get_result = None
    /\ get_pc = "start"
    /\ CmpIdle /\ ParseIdle /\ LogIdle /\ TableIdle /\ ReaderIdle /\ NameIdle

\* The key is made, the files are listed and sorted, and seek is called
\* for the .log files.
GetStart ==
    /\ get_pc = "start"
    /\ files_to_examine' =
           get_files_in_dir_modified_last_first(cache_files, username)
    /\ file_suffix' = LOG_SUFFIX
    /\ file_i' = 1
    /\ seek_key' = OuterKey
    /\ get_pc' = "seek"
    /\ UNCHANGED <<cache_files, username, get_result, not_get>>

\* if not filepath.endswith(file_suffix): continue
SeekSkipSuffix ==
    /\ AtFile
    /\ ~EndsWith(CurrentFile.path[Len(CurrentFile.path)], file_suffix)
    /\ file_i' = file_i + 1
    /\ UNCHANGED <<cache_files, username, files_to_examine, file_suffix,
                   seek_key, get_result, get_pc, not_get>>

\* No key is held and none can be made from the file's path: continue.
SeekSkipNoKey ==
    /\ AtCandidate
    /\ ~Truthy(CurrentKey)
    /\ file_i' = file_i + 1
    /\ seek_key' = CurrentKey
    /\ UNCHANGED <<cache_files, username, files_to_examine, file_suffix,
                   get_result, get_pc, not_get>>

\* reader_cls.find raises: nothing in seek or get catches it.
SeekFindRaises ==
    /\ AtCandidate
    /\ Truthy(CurrentKey)
    /\ ReaderFind(file_suffix, CurrentKey, CurrentFile).raised # None
    /\ seek_key' = CurrentKey
    /\ get_pc' = "raise"
    /\ UNCHANGED <<cache_files, username, files_to_examine, file_suffix,
                   file_i, get_result, not_get>>

\* find returns None or an empty value: the loop goes on.
SeekFindMiss ==
    /\ AtCandidate
    /\ Truthy(CurrentKey)
    /\ ReaderFind(file_suffix, CurrentKey, CurrentFile).raised = None
    /\ ~Truthy(ReaderFind(file_suffix, CurrentKey, CurrentFile).value)
    /\ seek_key' = CurrentKey
    /\ file_i' = file_i + 1
    /\ UNCHANGED <<cache_files, username, files_to_examine, file_suffix,
                   get_result, get_pc, not_get>>

\* find returns a value: seek returns (username, value) and get returns it.
SeekFindHit ==
    /\ AtCandidate
    /\ Truthy(CurrentKey)
    /\ ReaderFind(file_suffix, CurrentKey, CurrentFile).raised = None
    /\ Truthy(ReaderFind(file_suffix, CurrentKey, CurrentFile).value)
    /\ seek_key' = CurrentKey
    /\ get_result' = <<extract_username_from_filepath(CurrentFile.path),
                       ReaderFind(file_suffix, CurrentKey, CurrentFile).value>>
    /\ get_pc' = "return"
    /\ UNCHANGED <<cache_files, username, files_to_examine, file_suffix,
                   file_i, not_get>>

\* seek(".log", ...) returned None: seek is called for the .ldb files.
SeekLdbPass ==
    /\ get_pc = "seek"
    /\ file_i > Len(files_to_examine)
    /\ file_suffix = LOG_SUFFIX
    /\ file_suffix' = LDB_SUFFIX
    /\ file_i' = 1
    /\ seek_key' = OuterKey
    /\ UNCHANGED <<cache_files, username, files_to_examine, get_result,
                   get_pc, not_get>>

\* seek(".ldb", ...) returned None: return None, None
GetReturnNone ==
    /\ get_pc = "seek"
    /\ file_i > Len(files_to_examine)
    /\ file_suffix = LDB_SUFFIX
    /\ get_result' = <<NoValue, NoValue>>
    /\ get_pc' = "return"
    /\ UNCHANGED <<cache_files, username, files_to_examine, file_suffix,
                   file_i, seek_key, not_get>>

GetNext ==
    \/ GetStart
    \/ SeekSkipSuffix
    \/ SeekSkipNoKey
    \/ SeekFindRaises
    \/ SeekFindMiss
    \/ SeekFindHit
    \/ SeekLdbPass
    \/ GetReturnNone

SpecGet == GetInit /\ [][GetNext]_vars

\* The files get examines are the files of the walk, each once, none older
\* before a newer one.
ExaminedModifiedLastFirst ==
    /\ Len(files_to_examine) = Len(Walk(cache_files, username))
    /\ {files_to_examine[i] : i \in DOMAIN files_to_examine}
           = {Walk(cache_files, username)[i] :
                  i \in DOMAIN Walk(cache_files, username)}
    /\ \A i, j \in DOMAIN files_to_examine :
          i < j => files_to_examine[i].mtime >= files_to_examine[j].mtime

\* The examined files of one suffix, in the order they are examined.
PassFiles(suffix) ==
    LET HasSuffix(file) == EndsWith(file.path[Len(file.path)], suffix)
    IN  SelectSeq(files_to_examine, HasSuffix)

\* The key seek holds when it comes to the i-th file of a pass: the key of
\* the username given, else the key of the first file of the pass, up to
\* this one, whose path tells a username.
PassKey(files, i) ==
    IF Truthy(username) THEN make_key_from_username(username)
    ELSE LET told == {j \in 1..i : Truthy(make_key_from_filepath(files[j].path))}
         IN  IF told = {} THEN NoValue
             ELSE make_key_from_filepath(
                      files[CHOOSE j \in told : \A l \in told : j <= l].path)

\* find on the i-th file of a pass yields a value.
Yields(suffix, files, i) ==
    /\ Truthy(PassKey(files, i))
    /\ ReaderFind(suffix, PassKey(files, i), files[i]).raised = None
    /\ Truthy(ReaderFind(suffix, PassKey(files, i), files[i]).value)

\* The result from the first file of a pass that yields a value.
FirstYield(suffix) ==
    LET files == PassFiles(suffix)
        first == CHOOSE i \in DOMAIN files :
                     /\ Yields(suffix, files, i)
                     /\ \A j \in 1..(i - 1) : ~Yields(suffix, files, j)
    IN  <<extract_username_from_filepath(files[first].path),
          ReaderFind(suffix, PassKey(files, first), files[first]).value>>

SomeYields(suffix) ==
    \E i \in DOMAIN PassFiles(suffix) : Yields(suffix, PassFiles(suffix), i)

\* The first .log file that yields a value, else the first .ldb file that
\* does, else (None, None).
ClaimedResult ==
    IF SomeYields(LOG_SUFFIX) THEN FirstYield(LOG_SUFFIX)
    ELSE IF SomeYields(LDB_SUFFIX) THEN FirstYield(LDB_SUFFIX)
    ELSE <<NoValue, NoValue>>

\* Whenever get returns, the files were examined newest first and the
\* result is the one from the first .log file that yields a value, else
\* from the first .ldb file that does, else (None, None).
ReturnedAsClaimed ==
    /\ get_pc # "start" => ExaminedModifiedLastFirst
    /\ get_pc = "return" => get_result = ClaimedResult

\* C3: for any cache directory get examines the files in descending
\* last-modified order and ends by returning the value of the first .log
\* file whose find yields a value; a .ldb file is consulted only when no
\* .log file yielded one, and then the first .ldb hit in the same order is
\* returned; when no file yields a value the result is (None, None).
C3_ReturnsFirstYieldNewestFirst ==
    /\ get_pc # "start" => ExaminedModifiedLastFirst
    /\ get_pc \in {"return", "raise"} =>
          /\ get_pc = "return"
          /\ get_result = ClaimedResult

\* C4: a failure while reading one file (open fails, the footer's magic
\* number is wrong, the framing is corrupt, the compression is unsupported)
\* never aborts the scan: the file is skipped and seek goes on to the next
\* file.
C4_FailingFileSkipped ==
    [][(/\ AtCandidate
        /\ Truthy(CurrentKey)
        /\ ReaderFind(file_suffix, CurrentKey, CurrentFile).raised # None)
       => (get_pc' = "seek" /\ file_i' = file_i + 1)]_vars

(***************************************************************************)
(* The byte cursor: BytesReader over a LimitedFile                         *)
(***************************************************************************)
MaxReaderLen == 3

\* Bytes with and without the continuation bit of a varint.
ReaderByteValues == {1, 2, 129}

ReaderInit ==
    /\ reader_file \in SeqUpTo(ReaderByteValues, MaxReaderLen)
    /\ reader_max_offset \in 0..(MaxReaderLen + 1)
    /\ reader_pos = 0
    /\ reader_op = None
    /\ reader_n = 0
    /\ reader_from = 0
    /\ reader_bytes = <<>>
    /\ reader_value = 0
    /\ reader_raised = None
    /\ reader_pc = "ready"
    /\ CmpIdle /\ ParseIdle /\ LogIdle /\ TableIdle /\ GetIdle /\ NameIdle

\* n_bytes(n): whatever LimitedFile.read gives, be it fewer than n bytes.
ReaderNBytes ==
    /\ reader_pc = "ready"
    /\ \E n \in 0..2 :
          /\ reader_n' = n
          /\ reader_bytes' =
                 LimitedRead(reader_file, reader_pos, n, reader_max_offset)
    /\ reader_op' = "n_bytes"
    /\ reader_from' = reader_pos
    /\ reader_pos' = reader_pos + Len(reader_bytes')
    /\ UNCHANGED <<reader_file, reader_max_offset, reader_value,
                   reader_raised, reader_pc, not_reader>>

\* uint(n): int.from_bytes of what n_bytes(n) gave.
ReaderUint ==
    /\ reader_pc = "ready"
    /\ \E n \in 1..2 :
          /\ reader_n' = n
          /\ reader_bytes' =
                 LimitedRead(reader_file, reader_pos, n, reader_max_offset)
    /\ reader_op' = "uint"
    /\ reader_from' = reader_pos
    /\ reader_pos' = reader_pos + Len(reader_bytes')
    /\ reader_value' = FromLittleEndian(reader_bytes')
    /\ UNCHANGED <<reader_file, reader_max_offset, reader_raised, reader_pc,
                   not_reader>>

\* varint(): n_bytes(1)[0] byte after byte; the read at the limit gives b""
\* and the index raises IndexError.
ReaderVarint ==
    /\ reader_pc = "ready"
    /\ LET got == Varint(FileRead(reader_file, 0, reader_max_offset),
                         reader_pos)
       IN  /\ reader_pos' = got.pos
           /\ reader_bytes' = SubSeq(reader_file, reader_pos + 1, got.pos)
           /\ reader_raised' = got.raised
           /\ reader_value' = IF got.raised = None THEN got.value
                              ELSE reader_value
           /\ reader_pc' = IF got.raised = None THEN "ready" ELSE "raise"
    /\ reader_op' = "varint"
    /\ reader_n' = 1
    /\ reader_from' = reader_pos
    /\ UNCHANGED <<reader_file, reader_max_offset, not_reader>>

ReaderNext ==
    \/ ReaderNBytes
    \/ ReaderUint
    \/ ReaderVarint

SpecReader == ReaderInit /\ [][ReaderNext]_vars

\* The bytes that remained before the cursor's limit when the last read
\* was made.
ReaderRemaining ==
    SubSeq(reader_file, reader_from + 1,
           Min(reader_max_offset, Len(reader_file)))

\* C11: a read of the cursor (n_bytes, uint, varint) that needs more bytes
\* than remain before the limit fails with UnexpectedEof; it never returns
\* a shorter byte string or an integer decoded from fewer bytes than asked.
C11_ShortReadFailsWithUnexpectedEof ==
    /\ reader_op \in {"n_bytes", "uint"} /\ reader_n > Len(ReaderRemaining)
           => reader_raised = "UnexpectedEof"
    /\ reader_op = "varint"
           /\ (\A i \in DOMAIN ReaderRemaining : ReaderRemaining[i] >= 128)
           => reader_raised = "UnexpectedEof"
    /\ reader_op \in {"n_bytes", "uint"} /\ reader_raised = None
           => Len(reader_bytes) = reader_n

(***************************************************************************)
(* Username inference: extract_username_from_filepath, get_usernames       *)
(***************************************************************************)
MaxNameLen  == 3
MaxSegments == 2

\* "a" and "-"
NameBytes == {97, 45}

\* Names of files and directories: any short name, alone or before "-user".
NameSegments ==
    SeqUpTo(NameBytes, MaxNameLen)
        \cup {name \o DASH_USER : name \in SeqUpTo(NameBytes, MaxNameLen)}

NameInit ==
    /\ \E n \in 1..MaxSegments : name_segments \in [1..n -> NameSegments]
    /\ name_result = NoValue
    /\ name_usernames = <<>>
    /\ name_pc = "call"
    /\ CmpIdle /\ ParseIdle /\ LogIdle /\ TableIdle /\ GetIdle /\ ReaderIdle

\* extract_username_from_filepath(filepath), name_segments being the
\* segments of filepath.
ExtractUsername ==
    /\ name_pc = "call"
    /\ name_result' = extract_username_from_filepath(name_segments)
    /\ name_pc' = "extracted"
    /\ UNCHANGED <<name_segments, name_usernames, not_name>>

\* [folder.rsplit("-")[0] for folder in listing if folder.endswith("-user")]
RECURSIVE UsernamesOf(_)
UsernamesOf(listing) ==
    IF listing = <<>> THEN <<>>
    ELSE IF EndsWith(Head(listing), DASH_USER)
    THEN <<RsplitDashFirst(Head(listing))>> \o UsernamesOf(Tail(listing))
    ELSE UsernamesOf(Tail(listing))

\* get_usernames(users_directory_path), name_segments being what
\* os.listdir gives.
GetUsernames ==
    /\ name_pc = "call"
    /\ name_usernames' = UsernamesOf(name_segments)
    /\ name_pc' = "listed"
    /\ UNCHANGED <<name_segments, name_result, not_name>>

NameNext ==
    \/ ExtractUsername
    \/ GetUsernames

SpecName == NameInit /\ [][NameNext]_vars

\* The username as the claim gives it: from the leaf to the root, the first
\* segment ending in "-user" without that ending; None when there is none.
RECURSIVE UsernameBeforeFinalDash(_, _)
UsernameBeforeFinalDash(filepath, i) ==
    IF i = 0 THEN NoValue
    ELSE IF EndsWith(filepath[i], DASH_USER)
    THEN SubSeq(filepath[i], 1, Len(filepath[i]) - Len(DASH_USER))
    ELSE UsernameBeforeFinalDash(filepath, i - 1)

\* C12: username inference walks the segments of the path from leaf to
\* root and, for the first segment ending in "-user", returns everything
\* before that segment's final "-": the whole <name> of "<name>-user", also
\* when <name> holds a "-"; a path with no such segment yields no username.
C12_UsernameIsBeforeFinalDash ==
    name_pc = "extracted" =>
        name_result = UsernameBeforeFinalDash(name_segments, Len(name_segments))

\* The same for every path whose "-user" segment has no "-" in its name.
UsernameWithoutDashAsClaimed ==
    name_pc = "extracted"
        /\ (\A i \in DOMAIN name_segments :
               \A j \in 1..(Len(name_segments[i]) - Len(DASH_USER)) :
                  name_segments[i][j] # 45)
        => name_result
               = UsernameBeforeFinalDash(name_segments, Len(name_segments))

(***************************************************************************)
(* The key of each file when get is called without a username              *)
(***************************************************************************)
\* C13: called without a username, get searches each file with the
\* rootlist key of the username its own path tells, and a (username, value)
\* it returns has value bound to the rootlist key of that username in the
\* file of the hit; a key made from an earlier file is never used for a
\* file of another user.
C13_EachFileSearchedWithOwnKey ==
    /\ (AtCandidate /\ username = NoValue /\ Truthy(CurrentKey))
           => CurrentKey = make_key_from_filepath(CurrentFile.path)
    /\ (get_pc = "return" /\ username = NoValue /\ get_result[2] # NoValue)
           => /\ Truthy(get_result[1])
              /\ ReaderFind(file_suffix, make_key_from_username(get_result[1]),
                            CurrentFile).value = get_result[2]

\* Without a username the files of one pass are all searched with the key
\* of the first file of the pass whose path tells a username.
PassSearchedWithFirstKey ==
    (AtCandidate /\ username = NoValue /\ Truthy(seek_key))
        => \E i \in 1..file_i :
              /\ EndsWith(files_to_examine[i].path[Len(files_to_examine[i].path)],
                          file_suffix)
              /\ seek_key = make_key_from_filepath(files_to_examine[i].path)

====
